---- MODULE Spec2Model ----
(***************************************************************************)
(* A model of release.applyChanges (release/instance.go): the batch of     *)
(* service updates is split into synchronous and asynchronous definitions, *)
(* the result ledger is primed, the platform is asked to apply the         *)
(* synchronous definitions, the error is classified, results are reported  *)
(* and the asynchronous definitions are applied last.                      *)
(***************************************************************************)
EXTENDS Integers, Sequences, FiniteSets, TLC

VARIABLES
    updates,        \* the []*ServiceUpdate argument
    results0,       \* the flux.ReleaseResult argument as the caller passed it
    results,        \* the flux.ReleaseResult map, mutated in place
    defs,           \* var defs []platform.ServiceDefinition
    asyncDefs,      \* var asyncDefs []platform.ServiceDefinition
    i,              \* position of the loop over updates (line 46)
    j,              \* position of the loop over defs (line 99)
    pc,             \* position in applyChanges
    transactionErr, \* the value inst.PlatformApply(defs) returned
    asyncErr,       \* the value inst.PlatformApply(asyncDefs) returned (dropped)
    calls,          \* the arguments of the inst.PlatformApply calls, in order
    events,         \* the inst.LogEvent calls, in order
    diag,           \* the inst.Log calls, in order
    ret             \* what applyChanges returned

vars == <<updates, results0, results, defs, asyncDefs, i, j, pc,
          transactionErr, asyncErr, calls, events, diag, ret>>

-----------------------------------------------------------------------------
(* Bounds and the finite sets the inputs are drawn from *)

MaxUpdates == 2

\* the two reserved service names (package constants; the values stand for them)
FluxServiceName == "fluxsvc"
FluxDaemonName == "fluxd"

ServiceNames == {"web", "api", FluxServiceName, FluxDaemonName}

\* flux.ServiceID: a namespace and a service name
ServiceIDs == [namespace : {"ns"}, service : ServiceNames]

\* ServiceID.Components()
Components(id) == <<id.namespace, id.service>>

\* ServiceID.String()
IDString(id) == id.namespace \o "/" \o id.service

\* flux.ContainerUpdate values
CU1 == [Container |-> "app", Current |-> "v1", Target |-> [Tag |-> "v2"]]
CU2 == [Container |-> "side", Current |-> "a", Target |-> [Tag |-> "b"]]

ContainerUpdateLists == {<< >>, <<CU1>>}

\* flux.ReleaseStatus values
ReleaseStatusSuccess == "success"
ReleaseStatusFailed == "failed"
ReleaseStatusUnknown == "unknown"

\* flux.ServiceResult
ServiceResult(status, error, perContainer) ==
    [Status |-> status, Error |-> error, PerContainer |-> perContainer]

\* the zero value a Go map lookup yields for a missing key
ZeroResult == ServiceResult("", "", << >>)

\* ledger entries a caller may pass in
PriorFailed == ServiceResult(ReleaseStatusFailed, "old failure", <<CU2, CU1>>)
PriorOdd == ServiceResult("pending", "", <<CU1>>)
PriorEntries == {PriorFailed, PriorOdd}

PriorIDs == {id \in ServiceIDs : id.service \in {"web", FluxServiceName}}

Ledgers == UNION {[S -> PriorEntries] : S \in SUBSET PriorIDs}

\* ServiceUpdate: the fields applyChanges reads
ManifestOf(id) == "manifest of " \o id.service

UpdateRecords ==
    {[ServiceID |-> id, Updates |-> cs, ManifestBytes |-> ManifestOf(id)] :
        id \in ServiceIDs, cs \in ContainerUpdateLists}

Batches == UNION {[1..n -> UpdateRecords] : n \in 0..MaxUpdates}

\* error values of inst.PlatformApply
NilError == [kind |-> "nil"]
OpaqueError(msg) == [kind |-> "opaque", msg |-> msg]
ApplyError(errs) == [kind |-> "ApplyError", errs |-> errs]

CauseOf(id) == "cannot apply " \o id.service

ApplyErrors == {ApplyError([id \in S |-> CauseOf(id)]) : S \in SUBSET ServiceIDs}

PlatformErrors == {NilError, OpaqueError("platform unreachable")} \cup ApplyErrors

AsyncErrors ==
    {NilError, OpaqueError("connection reset"),
     ApplyError([id \in {x \in ServiceIDs : x.service = FluxServiceName} |-> CauseOf(id)])}

\* not yet returned
Pending == [kind |-> "pending"]

\* err.Error() of an error that is not an ApplyError
ErrorText(err) == err.msg

-----------------------------------------------------------------------------
(* Go map operations on flux.ReleaseResult *)

Lookup(m, id) == IF id \in DOMAIN m THEN m[id] ELSE ZeroResult

Store(m, id, v) == [k \in (DOMAIN m) \cup {id} |-> IF k = id THEN v ELSE m[k]]

-----------------------------------------------------------------------------
(* summariseUpdate *)

FormatUpdate(c) == c.Container \o " (" \o c.Current \o " -> " \o c.Target.Tag \o ")"

RECURSIVE Join(_, _)
Join(strs, sep) ==
    IF Len(strs) = 0 THEN ""
    ELSE IF Len(strs) = 1 THEN strs[1]
    ELSE strs[1] \o sep \o Join(Tail(strs), sep)

summariseUpdate(containerUpdates) ==
    IF Len(containerUpdates) = 0 THEN "(no image changes)"
    ELSE Join([k \in 1..Len(containerUpdates) |-> FormatUpdate(containerUpdates[k])], ", ")

-----------------------------------------------------------------------------
(* The pieces of applyChanges *)

Event(namespace, serviceName, message) ==
    [namespace |-> namespace, serviceName |-> serviceName, message |-> message]

\* variant: the daemon's name is missing from the case
IsAsync_ServiceOnly(serviceName) == serviceName = FluxServiceName

\* case FluxServiceName, FluxDaemonName
IsAsync(serviceName) == serviceName \in {FluxServiceName, FluxDaemonName}

AsyncDefinition(update) ==
    [ServiceID |-> update.ServiceID, NewDefinition |-> update.ManifestBytes, Async |-> TRUE]

SyncDefinition(update) ==
    [ServiceID |-> update.ServiceID, NewDefinition |-> update.ManifestBytes, Async |-> FALSE]

\* variant: the suffix of the asynchronous case is left out
StartMessage_NoSuffix(update, serviceName) ==
    "Starting " \o summariseUpdate(update.Updates)

StartMessage(update, serviceName) ==
    IF IsAsync(serviceName)
    THEN "Starting " \o summariseUpdate(update.Updates) \o ". (no result expected)"
    ELSE "Starting " \o summariseUpdate(update.Updates)

\* variant: the entry is written afresh, without the fields of the old one
MarkSuccessful_Fresh(m, id) ==
    Store(m, id, ServiceResult(ReleaseStatusSuccess, "", << >>))

\* variant: the asynchronous updates are not marked
MarkSuccessful_SkipAsync(m, id) ==
    IF id.service \in {FluxServiceName, FluxDaemonName}
    THEN m
    ELSE Store(m, id, ServiceResult(ReleaseStatusSuccess, Lookup(m, id).Error,
                                    Lookup(m, id).PerContainer))

\* variant: an entry the ledger already holds is left as it is
MarkSuccessful_IfAbsent(m, id) ==
    IF id \in DOMAIN m
    THEN m
    ELSE Store(m, id, ServiceResult(ReleaseStatusSuccess, "", << >>))

\* Mark as successful, until we have an answer
MarkSuccessful(m, id) ==
    LET result == Lookup(m, id)
    IN Store(m, id, ServiceResult(ReleaseStatusSuccess, result.Error, result.PerContainer))

\* variant: every named service gets the error text of one of them
MarkFailed_OneText(m, errs, ids) ==
    [k \in (DOMAIN m) \cup ids |->
        IF k \in ids
        THEN ServiceResult(ReleaseStatusFailed, errs[CHOOSE x \in DOMAIN errs : TRUE], << >>)
        ELSE m[k]]

\* the range loop over an ApplyError
RECURSIVE MarkFailed(_, _, _)
MarkFailed(m, errs, ids) ==
    IF ids = {} THEN m
    ELSE LET id == CHOOSE x \in ids : TRUE
         IN MarkFailed(Store(m, id, ServiceResult(ReleaseStatusFailed, errs[id], << >>)),
                       errs, ids \ {id})

\* variant: only the synchronous updates are marked
RECURSIVE MarkUnknown_SyncOnly(_, _, _)
MarkUnknown_SyncOnly(m, us, text) ==
    IF Len(us) = 0 THEN m
    ELSE IF IsAsync(us[1].ServiceID.service)
         THEN MarkUnknown_SyncOnly(m, Tail(us), text)
         ELSE MarkUnknown_SyncOnly(
                  Store(m, us[1].ServiceID, ServiceResult(ReleaseStatusUnknown, text, << >>)),
                  Tail(us), text)

\* the range loop over updates of the default case
RECURSIVE MarkUnknown(_, _, _)
MarkUnknown(m, us, text) ==
    IF Len(us) = 0 THEN m
    ELSE MarkUnknown(Store(m, us[1].ServiceID, ServiceResult(ReleaseStatusUnknown, text, << >>)),
                     Tail(us), text)

-----------------------------------------------------------------------------
Init ==
    /\ updates \in Batches
    /\ results0 \in Ledgers
    /\ results = results0
    /\ defs = << >>
    /\ asyncDefs = << >>
    /\ i = 1
    /\ j = 1
    /\ pc = "collect"
    /\ transactionErr = Pending
    /\ asyncErr = Pending
    /\ calls = << >>
    /\ events = << >>
    /\ diag = << >>
    /\ ret = Pending

\* one iteration of the loop over updates
Collect ==
    /\ pc = "collect"
    /\ i <= Len(updates)
    /\ LET update == updates[i]
           namespace == Components(update.ServiceID)[1]
           serviceName == Components(update.ServiceID)[2]
       IN /\ events' = Append(events, Event(namespace, serviceName, StartMessage(update, serviceName)))
          /\ IF IsAsync(serviceName)
             THEN /\ asyncDefs' = Append(asyncDefs, AsyncDefinition(update))
                  /\ defs' = defs
             ELSE /\ defs' = Append(defs, SyncDefinition(update))
                  /\ asyncDefs' = asyncDefs
          /\ results' = MarkSuccessful(results, update.ServiceID)
    /\ i' = i + 1
    /\ UNCHANGED <<updates, results0, j, pc, transactionErr, asyncErr, calls, diag, ret>>

\* variant: no call is made for an empty defs
PlatformApply_SkipEmpty ==
    /\ pc = "collect"
    /\ i > Len(updates)
    /\ IF Len(defs) = 0
       THEN /\ calls' = calls
            /\ transactionErr' = NilError
       ELSE /\ calls' = Append(calls, defs)
            /\ transactionErr' \in PlatformErrors
    /\ pc' = "classify"
    /\ UNCHANGED <<updates, results0, results, defs, asyncDefs, i, j, asyncErr, events, diag, ret>>

\* transactionErr := inst.PlatformApply(defs)
PlatformApply ==
    /\ pc = "collect"
    /\ i > Len(updates)
    /\ calls' = Append(calls, defs)
    /\ transactionErr' \in PlatformErrors
    /\ pc' = "classify"
    /\ UNCHANGED <<updates, results0, results, defs, asyncDefs, i, j, asyncErr, events, diag, ret>>

\* transactionErr == nil
NoError ==
    /\ pc = "classify"
    /\ transactionErr.kind = "nil"
    /\ pc' = "report"
    /\ UNCHANGED <<updates, results0, results, defs, asyncDefs, i, j, transactionErr,
                   asyncErr, calls, events, diag, ret>>

\* case platform.ApplyError
PerServiceError ==
    /\ pc = "classify"
    /\ transactionErr.kind = "ApplyError"
    /\ results' = MarkFailed(results, transactionErr.errs, DOMAIN transactionErr.errs)
    /\ pc' = "report"
    /\ UNCHANGED <<updates, results0, defs, asyncDefs, i, j, transactionErr,
                   asyncErr, calls, events, diag, ret>>

\* variant: the default case without its return statement
CoverallError_FallsThrough ==
    /\ pc = "classify"
    /\ transactionErr.kind = "opaque"
    /\ results' = MarkUnknown(results, updates, ErrorText(transactionErr))
    /\ pc' = "report"
    /\ UNCHANGED <<updates, results0, defs, asyncDefs, i, j, transactionErr,
                   asyncErr, calls, events, diag, ret>>

\* default: the coverall error
CoverallError ==
    /\ pc = "classify"
    /\ transactionErr.kind = "opaque"
    /\ results' = MarkUnknown(results, updates, ErrorText(transactionErr))
    /\ ret' = transactionErr
    /\ pc' = "done"
    /\ UNCHANGED <<updates, results0, defs, asyncDefs, i, j, transactionErr,
                   asyncErr, calls, events, diag>>

\* variant: every result is reported as a success
ReportMessage_AlwaysSucceeded(result) ==
    "Release " \o summariseUpdate(result.PerContainer) \o " succeeded"

ReportMessage(result) ==
    LET updateMsg == summariseUpdate(result.PerContainer)
    IN CASE result.Status = ReleaseStatusSuccess -> "Release " \o updateMsg \o " succeeded"
         [] result.Status = ReleaseStatusFailed ->
                "Release " \o updateMsg \o " failed: " \o result.Error
         [] result.Status = ReleaseStatusUnknown ->
                "Release " \o updateMsg \o " outcome unknown: " \o result.Error

KnownStatus(status) ==
    status \in {ReleaseStatusSuccess, ReleaseStatusFailed, ReleaseStatusUnknown}

\* one iteration of the loop over defs
Report ==
    /\ pc = "report"
    /\ j <= Len(defs)
    /\ LET def == defs[j]
           result == Lookup(results, def.ServiceID)
           namespace == Components(def.ServiceID)[1]
           serviceName == Components(def.ServiceID)[2]
       IN IF KnownStatus(result.Status)
          THEN /\ events' = Append(events, Event(namespace, serviceName, ReportMessage(result)))
               /\ diag' = diag
          ELSE /\ diag' = Append(diag, <<"error", "unexpected release status", "service-id",
                                         IDString(def.ServiceID), "status", result.Status>>)
               /\ events' = events
    /\ j' = j + 1
    /\ UNCHANGED <<updates, results0, results, defs, asyncDefs, i, pc, transactionErr,
                   asyncErr, calls, ret>>

\* variant: the second apply is given defs again
AsyncApply_WrongSlice ==
    /\ pc = "report"
    /\ j > Len(defs)
    /\ Len(asyncDefs) > 0
    /\ calls' = Append(calls, defs)
    /\ asyncErr' \in AsyncErrors
    /\ pc' = "return"
    /\ UNCHANGED <<updates, results0, results, defs, asyncDefs, i, j, transactionErr,
                   events, diag, ret>>

\* variant: the error of the second apply is recorded like that of the first
AsyncApply_Recorded ==
    /\ pc = "report"
    /\ j > Len(defs)
    /\ Len(asyncDefs) > 0
    /\ calls' = Append(calls, asyncDefs)
    /\ asyncErr' \in AsyncErrors
    /\ results' = IF asyncErr'.kind = "ApplyError"
                  THEN MarkFailed(results, asyncErr'.errs, DOMAIN asyncErr'.errs)
                  ELSE results
    /\ pc' = "return"
    /\ UNCHANGED <<updates, results0, defs, asyncDefs, i, j, transactionErr,
                   events, diag, ret>>

\* if len(asyncDefs) > 0 { inst.PlatformApply(asyncDefs) }
AsyncApply ==
    /\ pc = "report"
    /\ j > Len(defs)
    /\ Len(asyncDefs) > 0
    /\ calls' = Append(calls, asyncDefs)
    /\ asyncErr' \in AsyncErrors
    /\ pc' = "return"
    /\ UNCHANGED <<updates, results0, results, defs, asyncDefs, i, j, transactionErr,
                   events, diag, ret>>

\* variant: the final return gives nil
Return_Nil ==
    /\ \/ pc = "return"
       \/ pc = "report" /\ j > Len(defs) /\ Len(asyncDefs) = 0
    /\ ret' = NilError
    /\ pc' = "done"
    /\ UNCHANGED <<updates, results0, results, defs, asyncDefs, i, j, transactionErr,
                   asyncErr, calls, events, diag>>

\* return transactionErr
Return ==
    /\ \/ pc = "return"
       \/ pc = "report" /\ j > Len(defs) /\ Len(asyncDefs) = 0
    /\ ret' = transactionErr
    /\ pc' = "done"
    /\ UNCHANGED <<updates, results0, results, defs, asyncDefs, i, j, transactionErr,
                   asyncErr, calls, events, diag>>

Next ==
    \/ Collect
    \/ PlatformApply
    \/ NoError
    \/ PerServiceError
    \/ CoverallError
    \/ Report
    \/ AsyncApply
    \/ Return

Spec == Init /\ [][Next]_vars

-----------------------------------------------------------------------------
(* Vocabulary of the properties *)

Returned == pc = "done"

HasPrefix(s, p) == Len(s) >= Len(p) /\ SubSeq(s, 1, Len(p)) = p

HasSuffix(s, p) == Len(s) >= Len(p) /\ SubSeq(s, Len(s) - Len(p) + 1, Len(s)) = p

\* a record of the self partition: its service name is a reserved name
IsSelfRecord(u) == u.ServiceID.service = FluxServiceName \/ u.ServiceID.service = FluxDaemonName

IsOrdinaryRecord(u) == ~IsSelfRecord(u)

SelfRecords == SelectSeq(updates, IsSelfRecord)

OrdinaryRecords == SelectSeq(updates, IsOrdinaryRecord)

BatchIDs == {updates[k].ServiceID : k \in 1..Len(updates)}

IsStartingEvent(e) == HasPrefix(e.message, "Starting ")

IsResultEvent(e) == HasPrefix(e.message, "Release ")

ResultEvents == SelectSeq(events, IsResultEvent)

Coverall == transactionErr.kind = "opaque"

PerService == transactionErr.kind = "ApplyError"

NoPlatformError == transactionErr.kind = "nil"

HasStatus(id, status) == id \in DOMAIN results /\ results[id].Status = status

-----------------------------------------------------------------------------
\* C1: after a coverall error of the ordinary apply, every record of the
\* batch, ordinary and self alike, is Unknown in the ledger at return, with
\* the error's message as its error message.
C1_CoverallMarksAllUnknown ==
    (Returned /\ Coverall) =>
        \A k \in 1..Len(updates) :
            /\ HasStatus(updates[k].ServiceID, ReleaseStatusUnknown)
            /\ results[updates[k].ServiceID].Error = transactionErr.msg

C1_Witness ==
    /\ Returned /\ Coverall
    /\ Len(OrdinaryRecords) > 0 /\ Len(SelfRecords) > 0
    /\ \A k \in 1..Len(updates) : HasStatus(updates[k].ServiceID, ReleaseStatusUnknown)

\* C2: after a coverall error applyChanges returns that error, no result
\* event is ever emitted, and the ordinary apply stays the only platform call.
C2_CoverallStopsEverything ==
    Coverall =>
        /\ Len(calls) = 1
        /\ \A k \in 1..Len(events) : ~IsResultEvent(events[k])
        /\ diag = << >>
        /\ Returned => ret = transactionErr

C2_Witness ==
    /\ Returned /\ Coverall
    /\ Len(OrdinaryRecords) > 0 /\ Len(SelfRecords) > 0
    /\ ret.kind = "opaque" /\ Len(calls) = 1 /\ Len(events) = Len(updates)

\* C3: after a per-service error, at return every ordinary record named by
\* the mapping is Failed with the cause mapped to its ID, and every ordinary
\* record not named is Success.
C3_PerServiceMarksNamedFailed ==
    (Returned /\ PerService) =>
        \A k \in 1..Len(updates) :
            LET id == updates[k].ServiceID
            IN IsOrdinaryRecord(updates[k]) =>
                IF id \in DOMAIN transactionErr.errs
                THEN /\ HasStatus(id, ReleaseStatusFailed)
                     /\ results[id].Error = transactionErr.errs[id]
                ELSE HasStatus(id, ReleaseStatusSuccess)

C3_Witness ==
    /\ Returned /\ PerService
    /\ \E a, b \in 1..Len(updates) :
        /\ IsOrdinaryRecord(updates[a]) /\ IsOrdinaryRecord(updates[b])
        /\ updates[a].ServiceID \in DOMAIN transactionErr.errs
        /\ updates[b].ServiceID \notin DOMAIN transactionErr.errs
        /\ HasStatus(updates[a].ServiceID, ReleaseStatusFailed)
        /\ HasStatus(updates[b].ServiceID, ReleaseStatusSuccess)

C5_OutsideBatchUntouched ==
    Returned =>
        \A id \in ServiceIDs \ BatchIDs :
            /\ id \in DOMAIN results <=> id \in DOMAIN results0
            /\ id \in DOMAIN results0 => results[id] = results0[id]

\* C6: after an ordinary apply without error every ordinary record is Success
\* at return, and the result events are one "succeeded" event per ordinary
\* record, in input order, none of them for a self record.
C6_NoErrorAllSucceeded ==
    (Returned /\ NoPlatformError) =>
        /\ \A k \in 1..Len(updates) :
              IsOrdinaryRecord(updates[k]) => HasStatus(updates[k].ServiceID, ReleaseStatusSuccess)
        /\ Len(ResultEvents) = Len(OrdinaryRecords)
        /\ \A k \in 1..Len(ResultEvents) :
              /\ ResultEvents[k].namespace = OrdinaryRecords[k].ServiceID.namespace
              /\ ResultEvents[k].serviceName = OrdinaryRecords[k].ServiceID.service
              /\ HasSuffix(ResultEvents[k].message, " succeeded")
        /\ \A k \in 1..Len(events) :
              IsResultEvent(events[k]) => k > Len(updates)
        /\ diag = << >>

C6_Witness ==
    /\ Returned /\ NoPlatformError
    /\ Len(OrdinaryRecords) = 1 /\ Len(SelfRecords) = 1 /\ Len(ResultEvents) = 1
    /\ OrdinaryRecords[1].ServiceID \in DOMAIN results0
    /\ results0[OrdinaryRecords[1].ServiceID].Status = ReleaseStatusFailed
    /\ HasStatus(OrdinaryRecords[1].ServiceID, ReleaseStatusSuccess)

\* the definition the self apply has to carry for a record
SelfDefinitionOf(u) ==
    [ServiceID |-> u.ServiceID, NewDefinition |-> u.ManifestBytes, Async |-> TRUE]

\* the platform calls after the ordinary apply, which is always the first
SelfApplies == SubSeq(calls, 2, Len(calls))

\* C7: the self apply is issued iff there is a self record and the ordinary
\* apply returned no coverall error; it is issued once, with exactly the self
\* records, also after a per-service error.
C7_SelfApplyIff ==
    /\ Len(calls) <= 2
    /\ \A c \in 1..Len(SelfApplies) :
          /\ ~Coverall /\ Len(SelfRecords) > 0
          /\ SelfApplies[c] = [k \in 1..Len(SelfRecords) |-> SelfDefinitionOf(SelfRecords[k])]
    /\ (Returned /\ ~Coverall /\ Len(SelfRecords) > 0) => Len(SelfApplies) = 1

C7_Witness ==
    /\ Returned /\ PerService
    /\ Len(SelfRecords) > 0 /\ Len(OrdinaryRecords) > 0
    /\ Len(SelfApplies) = 1
    /\ \E k \in 1..Len(updates) : HasStatus(updates[k].ServiceID, ReleaseStatusFailed)

\* the self apply has been issued
SelfApplyIssued == Len(calls) = 2

\* C8: whatever the self apply returns, from the moment it is issued the
\* ledger and the event logs no longer change, and the value returned is the
\* one the ordinary apply gave.
C8_SelfOutcomeDiscarded ==
    /\ [][(SelfApplyIssued \/ SelfApplyIssued') =>
            (results' = results /\ events' = events /\ diag' = diag)]_vars
    /\ [](Returned /\ SelfApplyIssued => ret = transactionErr)

C8_Witness ==
    /\ Returned /\ SelfApplyIssued
    /\ asyncErr.kind = "ApplyError"
    /\ \E id \in DOMAIN asyncErr.errs : HasStatus(id, ReleaseStatusSuccess)
    /\ ret = NilError

\* C9: without a coverall error every self record is Success at return, also
\* when the per-service mapping names a self record.
C9_SelfStaysSuccess ==
    (Returned /\ ~Coverall) =>
        \A k \in 1..Len(updates) :
            IsSelfRecord(updates[k]) => HasStatus(updates[k].ServiceID, ReleaseStatusSuccess)

\* C10: once the first apply has been issued, the first events are one
\* starting event per input record, in input order, suffixed with
\* "(no result expected)" iff the record is a self record, and no later
\* event is a starting event.
C10_StartingEventsFirst ==
    /\ \A k \in 1..Len(events) :
          IsStartingEvent(events[k]) =>
              /\ k <= Len(updates)
              /\ calls = << >> => k < i
    /\ Len(calls) > 0 =>
          /\ Len(events) >= Len(updates)
          /\ \A k \in 1..Len(updates) :
                /\ IsStartingEvent(events[k])
                /\ events[k].namespace = updates[k].ServiceID.namespace
                /\ events[k].serviceName = updates[k].ServiceID.service
                /\ HasSuffix(events[k].message, "(no result expected)") <=> IsSelfRecord(updates[k])

C10_Witness ==
    /\ Len(calls) = 1 /\ pc = "classify"
    /\ Len(updates) = 2
    /\ IsSelfRecord(updates[1]) /\ IsOrdinaryRecord(updates[2])
    /\ HasSuffix(events[1].message, "(no result expected)")
    /\ ~HasSuffix(events[2].message, "(no result expected)")

\* the definition the ordinary apply has to carry for a record
OrdinaryDefinitionOf(u) ==
    [ServiceID |-> u.ServiceID, NewDefinition |-> u.ManifestBytes, Async |-> FALSE]

\* the loop over the updates has ended
Partitioned == pc # "collect" \/ i > Len(updates)

\* C11: the definitions of the ordinary apply and those built for the self
\* apply hold every input record exactly once between them: the self ones
\* are the records with a reserved service name, in input order and with the
\* async flag, the ordinary ones are all others, in input order, without it.
C11_PartitionTotal ==
    /\ Len(defs) + Len(asyncDefs) = i - 1
    /\ Partitioned =>
          /\ defs = [k \in 1..Len(OrdinaryRecords) |-> OrdinaryDefinitionOf(OrdinaryRecords[k])]
          /\ asyncDefs = [k \in 1..Len(SelfRecords) |-> SelfDefinitionOf(SelfRecords[k])]
          /\ Len(defs) + Len(asyncDefs) = Len(updates)
    /\ Len(calls) >= 1 => calls[1] = defs
    /\ \A k \in 1..Len(defs) : ~defs[k].Async
    /\ \A k \in 1..Len(asyncDefs) : asyncDefs[k].Async

C11_Witness ==
    /\ Len(calls) = 2
    /\ Len(updates) = 2
    /\ updates[1].ServiceID.service = FluxDaemonName
    /\ IsOrdinaryRecord(updates[2])
    /\ Len(calls[1]) = 1 /\ Len(calls[2]) = 1
    /\ calls[2][1].ServiceID.service = FluxDaemonName

\* the entry the caller's ledger held for a service, the zero entry if none
PriorEntry(id) == IF id \in DOMAIN results0 THEN results0[id] ELSE ServiceResult("", "", << >>)

\* C12 as stated: at return the error message of every batch record is
\* non-empty iff its status is not Success, whatever the ledger held before.
C12_ErrorIffNotSuccess ==
    Returned =>
        \A id \in BatchIDs :
            /\ id \in DOMAIN results
            /\ results[id].Error # "" <=> results[id].Status # ReleaseStatusSuccess

\* C12 as amended: at return a Failed record carries the cause mapped to its
\* ID, an Unknown record the coverall error's message, and a Success record
\* the error message the ledger held for it before the call (empty if none).
C12_ErrorFollowsStatusOrPrior ==
    Returned =>
        \A id \in BatchIDs :
            /\ id \in DOMAIN results
            /\ results[id].Status = ReleaseStatusFailed =>
                  (PerService /\ results[id].Error = transactionErr.errs[id])
            /\ results[id].Status = ReleaseStatusUnknown =>
                  (Coverall /\ results[id].Error = transactionErr.msg)
            /\ results[id].Status = ReleaseStatusSuccess =>
                  results[id].Error = PriorEntry(id).Error
            /\ results[id].Status \in
                  {ReleaseStatusSuccess, ReleaseStatusFailed, ReleaseStatusUnknown}

C12_Witness ==
    /\ Returned
    /\ \E id \in BatchIDs :
          /\ PriorEntry(id).Error # ""
          /\ HasStatus(id, ReleaseStatusSuccess)
          /\ results[id].Error = PriorEntry(id).Error
    /\ \E id \in BatchIDs : HasStatus(id, ReleaseStatusFailed)

\* C13: without a coverall error, the result event of every ordinary record
\* summarises that record's own container changes, as its starting event
\* does, and the record's ledger entry at return carries those changes.
C13_ChangesCarriedOver ==
    (Returned /\ ~Coverall) =>
        /\ Len(ResultEvents) = Len(OrdinaryRecords)
        /\ \A k \in 1..Len(OrdinaryRecords) :
              LET u == OrdinaryRecords[k]
              IN /\ HasPrefix(ResultEvents[k].message,
                              "Release " \o summariseUpdate(u.Updates) \o " ")
                 /\ u.ServiceID \in DOMAIN results
                 /\ results[u.ServiceID].PerContainer = u.Updates

\* the case of C14: an empty ledger, records of both partitions, no error
C14_Case ==
    /\ Returned /\ NoPlatformError
    /\ results0 = << >>
    /\ Len(OrdinaryRecords) >= 1 /\ Len(SelfRecords) >= 1

OrdinaryIDs == {OrdinaryRecords[k].ServiceID : k \in 1..Len(OrdinaryRecords)}

\* C14 as stated: in that case the ledger returned holds entries exactly for
\* the ordinary records, each Success, and none for a self record.
C14_LedgerOrdinaryOnly ==
    C14_Case =>
        /\ DOMAIN results = OrdinaryIDs
        /\ \A id \in OrdinaryIDs : results[id].Status = ReleaseStatusSuccess

\* C14 as amended: in that case the ledger returned holds entries exactly for
\* the records of the batch, ordinary and self alike, each Success.
C14_LedgerWholeBatch ==
    C14_Case =>
        /\ DOMAIN results = BatchIDs
        /\ \A id \in BatchIDs : results[id].Status = ReleaseStatusSuccess

C14_Witness ==
    /\ C14_Case
    /\ \E k \in 1..Len(updates) :
          /\ updates[k].ServiceID.service = FluxServiceName
          /\ HasStatus(updates[k].ServiceID, ReleaseStatusSuccess)
    /\ \E k \in 1..Len(updates) :
          /\ updates[k].ServiceID.service = "web"
          /\ HasStatus(updates[k].ServiceID, ReleaseStatusSuccess)

Contains(s, p) == \E k \in 1..(Len(s) - Len(p) + 1) : SubSeq(s, k, k + Len(p) - 1) = p

\* the kind of a result event matches a ledger entry
KindMatches(e, result) ==
    CASE result.Status = ReleaseStatusSuccess -> HasSuffix(e.message, " succeeded")
      [] result.Status = ReleaseStatusFailed -> HasSuffix(e.message, " failed: " \o result.Error)
      [] result.Status = ReleaseStatusUnknown ->
            HasSuffix(e.message, " outcome unknown: " \o result.Error)
      [] OTHER -> FALSE

\* C15: without a coverall error there is one result event per ordinary
\* record, in input order, of the kind of the record's ledger status at
\* return; result events are emitted only after the ordinary apply has
\* returned and the ledger has been updated, and all of them before the self
\* apply is issued.
C15_ResultEventsInOrder ==
    /\ (Returned /\ ~Coverall) =>
          /\ Len(ResultEvents) = Len(OrdinaryRecords)
          /\ \A k \in 1..Len(ResultEvents) :
                /\ ResultEvents[k].namespace = OrdinaryRecords[k].ServiceID.namespace
                /\ ResultEvents[k].serviceName = OrdinaryRecords[k].ServiceID.service
                /\ OrdinaryRecords[k].ServiceID \in DOMAIN results
                /\ KindMatches(ResultEvents[k], results[OrdinaryRecords[k].ServiceID])
    /\ Len(ResultEvents) > 0 => (pc \in {"report", "return", "done"} /\ Len(calls) >= 1)
    /\ pc = "report" => (Len(ResultEvents) = j - 1 /\ Len(calls) = 1)
    /\ SelfApplyIssued => Len(ResultEvents) = Len(OrdinaryRecords)

C15_Witness ==
    /\ Returned /\ PerService /\ SelfApplyIssued
    /\ Len(ResultEvents) = 1
    /\ Contains(ResultEvents[1].message, " failed: ")

\* the ordinary apply is being issued: the loop has ended and the error has
\* not been looked at
AtOrdinaryApply == (pc = "collect" /\ i > Len(updates)) \/ pc = "classify"

\* C16: when the ordinary apply is issued every record of the batch has a
\* Success entry whose error message and container changes are those of the
\* entry the ledger held for the service before the call (empty if none).
C16_PrimedKeepingFields ==
    AtOrdinaryApply =>
        \A id \in BatchIDs :
            /\ id \in DOMAIN results
            /\ results[id] = ServiceResult(ReleaseStatusSuccess, PriorEntry(id).Error,
                                           PriorEntry(id).PerContainer)

C16_Witness ==
    /\ pc = "classify"
    /\ Len(updates) = 2
    /\ IsSelfRecord(updates[1]) /\ IsOrdinaryRecord(updates[2])
    /\ updates[1].ServiceID \notin DOMAIN results0
    /\ updates[2].ServiceID \in DOMAIN results0
    /\ results0[updates[2].ServiceID].Status = ReleaseStatusFailed
    /\ results[updates[2].ServiceID].Error = "old failure"
    /\ results[updates[2].ServiceID].Status = ReleaseStatusSuccess

\* C17: the status the reporter reads for an ordinary record is always
\* Success, Failed or Unknown, whatever status the ledger held before, so
\* the "unexpected release status" diagnostic is never logged.
C17_NoUnexpectedStatus ==
    /\ diag = << >>
    /\ pc = "report" =>
          \A k \in 1..Len(defs) :
              /\ defs[k].ServiceID \in DOMAIN results
              /\ results[defs[k].ServiceID].Status \in
                    {ReleaseStatusSuccess, ReleaseStatusFailed, ReleaseStatusUnknown}

C17_Witness ==
    /\ Returned /\ ~Coverall
    /\ Len(ResultEvents) >= 1
    /\ \E k \in 1..Len(updates) :
          /\ IsOrdinaryRecord(updates[k])
          /\ updates[k].ServiceID \in DOMAIN results0
          /\ results0[updates[k].ServiceID].Status = "pending"

\* the status the ledger holds for a service, "absent" if it holds none
StatusOf(m, id) == IF id \in DOMAIN m THEN m[id].Status ELSE "absent"

Final(status) == status = ReleaseStatusFailed \/ status = ReleaseStatusUnknown

\* C18: within one invocation the status of a batch service goes from its
\* prior value (or absence) to Success while the batch is collected: every
\* batch service is Success when the ordinary apply is issued; after that the
\* only change is from Success to Failed or to Unknown, and a status that
\* has become Failed or Unknown stays as it is until the call returns.
C18_StatusSequence ==
    /\ [][\A id \in BatchIDs :
            StatusOf(results', id) # StatusOf(results, id) =>
                IF pc = "collect"
                THEN /\ StatusOf(results', id) = ReleaseStatusSuccess
                     /\ i <= Len(updates) /\ id = updates[i].ServiceID
                ELSE /\ StatusOf(results, id) = ReleaseStatusSuccess
                     /\ Final(StatusOf(results', id))]_vars
    /\ [](AtOrdinaryApply =>
            \A id \in BatchIDs : StatusOf(results, id) = ReleaseStatusSuccess)

C18_Witness ==
    /\ Returned /\ PerService
    /\ \E id \in BatchIDs :
          /\ StatusOf(results0, id) = ReleaseStatusFailed
          /\ StatusOf(results, id) = ReleaseStatusSuccess
    /\ \E id \in BatchIDs :
          /\ StatusOf(results0, id) = "absent"
          /\ StatusOf(results, id) = ReleaseStatusFailed

\* C19: the ordinary apply is issued once in every invocation, also for an
\* empty ordinary partition; a coverall error of such an empty apply marks
\* every self record Unknown and suppresses the self apply; an invocation
\* makes one or two platform calls, never none.
C19_OrdinaryApplyAlways ==
    /\ pc # "collect" =>
          /\ Len(calls) \in {1, 2}
          /\ calls[1] = [k \in 1..Len(OrdinaryRecords) |-> OrdinaryDefinitionOf(OrdinaryRecords[k])]
          /\ \A c \in 2..Len(calls) : calls[c] # << >> /\ \A k \in 1..Len(calls[c]) : calls[c][k].Async
    /\ (Returned /\ Coverall /\ Len(OrdinaryRecords) = 0) =>
          /\ calls = << << >> >>
          /\ \A k \in 1..Len(updates) : HasStatus(updates[k].ServiceID, ReleaseStatusUnknown)

C19_Witness ==
    /\ Returned /\ Coverall
    /\ Len(OrdinaryRecords) = 0 /\ Len(SelfRecords) = 2
    /\ calls = << << >> >>
    /\ \A k \in 1..Len(updates) : HasStatus(updates[k].ServiceID, ReleaseStatusUnknown)

\* C20: no "outcome unknown" result event is ever emitted: every result
\* event is a "succeeded" or a "failed" one, since the coverall branch, the
\* only one to write Unknown, returns before the reporting loop.
C20_NoUnknownEvent ==
    /\ \A k \in 1..Len(events) :
          IsResultEvent(events[k]) =>
              /\ ~Contains(events[k].message, " outcome unknown: ")
              /\ HasSuffix(events[k].message, " succeeded")
                    \/ Contains(events[k].message, " failed: ")
    /\ pc \in {"report", "return"} =>
          \A k \in 1..Len(defs) : ~HasStatus(defs[k].ServiceID, ReleaseStatusUnknown)

C20_Witness ==
    /\ Returned /\ Coverall
    /\ Len(OrdinaryRecords) = 2
    /\ \A k \in 1..Len(updates) : HasStatus(updates[k].ServiceID, ReleaseStatusUnknown)
    /\ ResultEvents = << >>

====
